---- MODULE Spec2Model ----
(***************************************************************************)
(* b2sum (src/b2sum/src/main.rs): the command-line driver of blake2b_simd. *)
(* One run of main() is modelled as a sequential state machine: the        *)
(* length check, the loop over opt.input, and for each path open_input,    *)
(* hash_one (with read_write_all or the single mmap update) and the print  *)
(* of the result.  The operating system (files, standard input, failing    *)
(* system calls) is the environment; its outcomes are chosen by \E.        *)
(***************************************************************************)
EXTENDS Integers, Sequences, FiniteSets, TLC

(***************************************************************************)
(* Bounds of the model.                                                    *)
(***************************************************************************)
MaxInputs == 3          \* longest list of designators on the command line
MaxLengthBits == 520    \* largest value given to --length
MaxShortRead == 2       \* largest read that returns less than is available
MaxShortReads == 2      \* short reads modelled per input

(***************************************************************************)
(* Program constants.                                                      *)
(***************************************************************************)
BufLen == 32768         \* let mut buf = [0; 32768]
DefaultLengthBits == 512
MaxHashBits == 512
ExitFailure == 1
ExitSuccess == 0

NoneVal == [none |-> TRUE]

\* The value of input while no Input exists.
NoInput == "None"

Min(a, b) == IF a <= b THEN a ELSE b

(***************************************************************************)
(* The environment: the file system and the designators of a run.          *)
(***************************************************************************)
StdinSentinel == "-"

\* A file of BufLen + 1 zero bytes: one full buffer and one byte more.
BigContent == [k \in 1..(BufLen + 1) |-> 0]

\* The regular files that exist, by path.
Files == {"a", "empty", "big"}

FileContent(path) ==
    CASE path = "a" -> <<1, 2, 3>>
      [] path = "empty" -> <<>>
      [] path = "big" -> BigContent

\* Paths given on the command line; "nofile" names no file.
Designators == {StdinSentinel, "a", "empty", "nofile"}

StdinContents == {<<>>, <<7, 8>>}

RECURSIVE SeqsUpTo(_, _)
SeqsUpTo(S, n) ==
    IF n = 0 THEN {<<>>}
    ELSE LET shorter == SeqsUpTo(S, n - 1)
         IN shorter \cup {Append(s, x) : s \in {t \in shorter : Len(t) = n - 1}, x \in S}

\* The command lines of the model: every list of up to MaxInputs of the
\* paths above, and the big file alone.
ArgLists == SeqsUpTo(Designators, MaxInputs) \cup {<<"big">>}

TypicalLengths == {8, DefaultLengthBits}

\* Every --length is tried on the command lines of at most one small path;
\* the longer ones are run with the lengths of TypicalLengths, and the big
\* file with the shortest length and an empty standard input.
LengthsFor(positional) ==
    IF positional = <<"big">> THEN {8}
    ELSE IF Len(positional) <= 1 THEN 0..MaxLengthBits
    ELSE TypicalLengths

StdinContentsFor(positional) ==
    IF positional = <<"big">> THEN {<<>>} ELSE StdinContents

(***************************************************************************)
(* The hash primitive of the blake2b_simd library (its interface only).    *)
(***************************************************************************)
\* Params::new().hash_length(n).to_state()
StateNew(hash_length) ==
    [hash_length |-> hash_length, absorbed |-> <<>>]

\* State::update, and State's io::Write (write_all absorbs the whole slice)
StateUpdate(st, bytes) == [st EXCEPT !.absorbed = @ \o bytes]

RECURSIVE Checksum(_, _, _)
Checksum(s, lo, hi) ==
    IF lo > hi THEN 0
    ELSE IF lo = hi THEN (lo * (s[lo] + 1)) % 251
    ELSE LET mid == (lo + hi) \div 2
         IN (Checksum(s, lo, mid) + Checksum(s, mid + 1, hi)) % 251

\* The digest bytes: a function of the absorbed bytes, in order, and of the
\* output length; hash_length bytes long.
DigestBytes(absorbed, hash_length) ==
    [k \in 1..hash_length |->
        (Checksum(absorbed, 1, Len(absorbed)) + 7 * k + hash_length) % 256]

\* State::finalize
StateFinalize(st) == DigestBytes(st.absorbed, st.hash_length)

HexDigits == <<"0", "1", "2", "3", "4", "5", "6", "7",
               "8", "9", "a", "b", "c", "d", "e", "f">>

RECURSIVE ToHex(_)
\* Hash::to_hex: two lowercase hexadecimal characters per byte
ToHex(bytes) ==
    IF bytes = <<>> THEN ""
    ELSE HexDigits[(Head(bytes) \div 16) + 1] \o HexDigits[(Head(bytes) % 16) + 1]
         \o ToHex(Tail(bytes))

(***************************************************************************)
(* Opt::from_args                                                          *)
(***************************************************************************)
\* Mutant of FromArgs: input has no default value.
FromArgs_NoDefault(positional, length_bits, mmap) ==
    [input |-> positional, length_bits |-> length_bits, mmap |-> mmap]

FromArgs(positional, length_bits, mmap) ==
    [input |-> IF positional = <<>> THEN <<StdinSentinel>> ELSE positional,
     length_bits |-> length_bits,
     mmap |-> mmap]

VARIABLES
    args,           \* the positional arguments given on the command line
    opt,            \* Opt: input, length_bits, mmap
    stdin_content,  \* the bytes of the process's standard input
    stdin_pos,      \* how many of them have been read
    pc,             \* where main() is
    idx,            \* index into opt.input of the current path
    did_error,      \* main's did_error
    input,          \* the Input of open_input: "Stdin", "File", "Mmap"; or NoInput
    file,           \* the open File (or the duplicated stdin), or NoneVal
    mmap,           \* the live memmap::Mmap ([bytes |-> ..]), or NoneVal
    state,          \* the blake2b State of hash_one, or NoneVal
    chunk,          \* buf[..n] of the last read
    short_reads,    \* short reads returned for the current input
    result,         \* the io::Result<Hash> of do_path
    stdout,         \* lines printed by println!
    stderr,         \* lines printed by eprintln!
    exit_code,      \* the process exit status, or NoneVal while running
    attempted,      \* history: the indexes do_path was called with, in order
    history,        \* history: per attempted index, what happened to it
    touched         \* history: the kinds of system call made on inputs

vars == <<args, opt, stdin_content, stdin_pos, pc, idx, did_error, input, file,
          mmap, state, chunk, short_reads, result, stdout, stderr, exit_code,
          attempted, history, touched>>

env == <<args, opt, stdin_content>>

Init ==
    /\ args \in ArgLists
    /\ stdin_content \in StdinContentsFor(args)
    /\ \E length_bits \in LengthsFor(args), m \in BOOLEAN :
          opt = FromArgs(args, length_bits, m)
    /\ stdin_pos = 0
    /\ pc = "main"
    /\ idx = 1
    /\ did_error = FALSE
    /\ input = NoInput
    /\ file = NoneVal
    /\ mmap = NoneVal
    /\ state = NoneVal
    /\ chunk = <<>>
    /\ short_reads = 0
    /\ result = NoneVal
    /\ stdout = <<>>
    /\ stderr = <<>>
    /\ exit_code = NoneVal
    /\ attempted = <<>>
    /\ history = <<>>
    /\ touched = {}

path == opt.input[idx]

\* The history entry of a path when do_path is called with it: whether a
\* descriptor was opened for it, whether open_input failed, whether a read
\* failed (and whether bytes had been absorbed by then), how many times its
\* State was finalized, and the Hash that do_path returned.
NewEntry ==
    [opened |-> FALSE, acq_failed |-> FALSE, read_failed |-> FALSE,
     partial |-> FALSE, finalized |-> 0, hash |-> NoneVal]

Note(field, value) == [history EXCEPT ![Len(history)][field] = value]

(***************************************************************************)
(* Results and printed lines.                                              *)
(***************************************************************************)
Ok(hash) == [ok |-> TRUE, hash |-> hash]
Err(e) == [ok |-> FALSE, e |-> e]

ENOENT == "No such file or directory (os error 2)"
EBADF == "Bad file descriptor (os error 9)"
ENODEV == "No such device (os error 19)"
EINVAL == "Invalid argument (os error 22)"
EIO == "Input/output error (os error 5)"

\* println!("{}  {}", hash.to_hex(), path_str)
SuccessLine(hash, path_str) == ToHex(hash) \o "  " \o path_str

\* eprintln!("b2sum: {}: {}", path_str, e)
FailureLine(path_str, e) == "b2sum: " \o path_str \o ": " \o e

InvalidLengthLine == "Invalid length."

(***************************************************************************)
(* main: the length check (lines 108-111).                                 *)
(***************************************************************************)
\* Mutant of InvalidLength: the multiple-of-8 test is missing.
InvalidLength_NoMultipleTest(length_bits) ==
    length_bits = 0 \/ length_bits > MaxHashBits

InvalidLength(length_bits) ==
    length_bits = 0 \/ length_bits > MaxHashBits \/ length_bits % 8 /= 0

main_invalid_length ==
    /\ pc = "main"
    /\ InvalidLength(opt.length_bits)
    /\ stderr' = Append(stderr, InvalidLengthLine)
    /\ exit_code' = ExitFailure
    /\ pc' = "exited"
    /\ UNCHANGED <<env, stdin_pos, idx, did_error, input, file, mmap, state,
                   chunk, short_reads, result, stdout, attempted,
                   history, touched>>

main_valid_length ==
    /\ pc = "main"
    /\ ~InvalidLength(opt.length_bits)
    /\ did_error' = FALSE
    /\ idx' = 1
    /\ pc' = "for_path"
    /\ UNCHANGED <<env, stdin_pos, input, file, mmap, state, chunk,
                   short_reads, result, stdout, stderr, exit_code, attempted,
                   history, touched>>

(***************************************************************************)
(* main: for path in &opt.input (line 114), calling do_path (line 116).    *)
(***************************************************************************)
main_for_path ==
    /\ pc = "for_path"
    /\ idx <= Len(opt.input)
    /\ attempted' = Append(attempted, idx)
    /\ history' = Append(history, NewEntry)
    /\ short_reads' = 0
    /\ pc' = "open_input"
    /\ UNCHANGED <<env, stdin_pos, idx, did_error, input, file, mmap, state,
                   chunk, result, stdout, stderr, exit_code, touched>>

main_for_end ==
    /\ pc = "for_path"
    /\ idx > Len(opt.input)
    /\ pc' = "main_end"
    /\ UNCHANGED <<env, stdin_pos, idx, did_error, input, file, mmap, state,
                   chunk, short_reads, result, stdout, stderr, exit_code,
                   attempted, history, touched>>

(***************************************************************************)
(* open_input (lines 45-61).                                               *)
(***************************************************************************)
\* Mutant of open_input_stdin: each "-" starts on standard input from its
\* beginning.
open_input_stdin_Rewinds ==
    /\ pc = "open_input"
    /\ path = StdinSentinel
    /\ ~opt.mmap
    /\ input' = "Stdin"
    /\ stdin_pos' = 0
    /\ pc' = "hash_one"
    /\ UNCHANGED <<env, idx, did_error, file, mmap, state, chunk,
                   short_reads, result, stdout, stderr, exit_code, attempted,
                   history, touched>>

\* path == "-" and !mmap: Input::Stdin
open_input_stdin ==
    /\ pc = "open_input"
    /\ path = StdinSentinel
    /\ ~opt.mmap
    /\ input' = "Stdin"
    /\ pc' = "hash_one"
    /\ UNCHANGED <<env, stdin_pos, idx, did_error, file, mmap, state, chunk,
                   short_reads, result, stdout, stderr, exit_code, attempted,
                   history, touched>>

\* path == "-" and mmap: os_pipe::dup_stdin()?.into()
open_input_dup_stdin ==
    /\ pc = "open_input"
    /\ path = StdinSentinel
    /\ opt.mmap
    /\ touched' = touched \cup {"dup"}
    /\ \E dup_ok \in BOOLEAN :
          IF dup_ok
          THEN /\ file' = [path |-> StdinSentinel, pos |-> stdin_pos]
               /\ history' = Note("opened", TRUE)
               /\ pc' = "map"
               /\ UNCHANGED result
          ELSE /\ result' = Err(EBADF)
               /\ history' = Note("acq_failed", TRUE)
               /\ pc' = "main_err"
               /\ UNCHANGED file
    /\ UNCHANGED <<env, stdin_pos, idx, did_error, input, mmap, state, chunk,
                   short_reads, stdout, stderr, exit_code, attempted>>

\* Mutant of open_input_file_open: the mmap flag is not looked at and an
\* opened file is always Input::File.
open_input_file_open_IgnoresMmap ==
    /\ pc = "open_input"
    /\ path /= StdinSentinel
    /\ touched' = touched \cup {"open"}
    /\ IF path \in Files
       THEN /\ file' = [path |-> path, pos |-> 0]
            /\ input' = "File"
            /\ history' = Note("opened", TRUE)
            /\ pc' = "hash_one"
            /\ UNCHANGED result
       ELSE /\ result' = Err(ENOENT)
            /\ history' = Note("acq_failed", TRUE)
            /\ pc' = "main_err"
            /\ UNCHANGED <<file, input>>
    /\ UNCHANGED <<env, stdin_pos, idx, did_error, mmap, state, chunk,
                   short_reads, stdout, stderr, exit_code, attempted>>

\* any other path: File::open(path)?, then Input::File(file) unless mmap
open_input_file_open ==
    /\ pc = "open_input"
    /\ path /= StdinSentinel
    /\ touched' = touched \cup {"open"}
    /\ IF path \in Files
       THEN /\ file' = [path |-> path, pos |-> 0]
            /\ input' = IF opt.mmap THEN input ELSE "File"
            /\ history' = Note("opened", TRUE)
            /\ pc' = IF opt.mmap THEN "map" ELSE "hash_one"
            /\ UNCHANGED result
       ELSE /\ result' = Err(ENOENT)
            /\ history' = Note("acq_failed", TRUE)
            /\ pc' = "main_err"
            /\ UNCHANGED <<file, input>>
    /\ UNCHANGED <<env, stdin_pos, idx, did_error, mmap, state, chunk,
                   short_reads, stdout, stderr, exit_code, attempted>>

\* The bytes a descriptor gives access to.
Content(p) == IF p = StdinSentinel THEN stdin_content ELSE FileContent(p)

\* What memmap::Mmap::map can return for a descriptor: standard input may be
\* a pipe, which cannot be mapped; a mapping of length zero is refused by
\* mmap(2) (EINVAL) and by memmap itself, and open_input does nothing of its
\* own about an empty file, so both outcomes are kept for it; a regular file
\* with content is mapped.
MapOutcomes(p) ==
    IF p = StdinSentinel \/ Content(p) = <<>> THEN {TRUE, FALSE} ELSE {TRUE}

\* The error of a refused mapping.
MapError(p) == IF Content(p) = <<>> THEN EINVAL ELSE ENODEV

\* Mutant of open_input_map: the file stays open when the mapping fails.
open_input_map_Leak ==
    /\ pc = "map"
    /\ touched' = touched \cup {"mmap"}
    /\ \E map_ok \in MapOutcomes(file.path) :
          IF map_ok
          THEN /\ mmap' = [bytes |-> Content(file.path)]
               /\ pc' = "open_input_return"
               /\ UNCHANGED <<file, result, history>>
          ELSE /\ result' = Err(MapError(file.path))
               /\ history' = Note("acq_failed", TRUE)
               /\ pc' = "main_err"
               /\ UNCHANGED <<file, mmap>>
    /\ UNCHANGED <<env, stdin_pos, idx, did_error, input, state, chunk,
                   short_reads, stdout, stderr, exit_code, attempted>>

\* Input::Mmap(unsafe { memmap::Mmap::map(&file)? }) (lines 49 and 56); on
\* the error return the local file is dropped.
open_input_map ==
    /\ pc = "map"
    /\ touched' = touched \cup {"mmap"}
    /\ \E map_ok \in MapOutcomes(file.path) :
          IF map_ok
          THEN /\ mmap' = [bytes |-> Content(file.path)]
               /\ pc' = "open_input_return"
               /\ UNCHANGED <<file, result, history>>
          ELSE /\ file' = NoneVal
               /\ result' = Err(MapError(file.path))
               /\ history' = Note("acq_failed", TRUE)
               /\ pc' = "main_err"
               /\ UNCHANGED mmap
    /\ UNCHANGED <<env, stdin_pos, idx, did_error, input, state, chunk,
                   short_reads, stdout, stderr, exit_code, attempted>>

\* Mutant of open_input_return: the file is moved to the caller with the
\* mapping instead of being dropped.
open_input_return_KeepsFile ==
    /\ pc = "open_input_return"
    /\ input' = "Mmap"
    /\ pc' = "hash_one"
    /\ UNCHANGED <<env, stdin_pos, idx, did_error, file, mmap, state, chunk,
                   short_reads, result, stdout, stderr, exit_code, attempted,
                   history, touched>>

\* open_input returns Ok(Input::Mmap(..)): its local file (stdin_file) goes
\* out of scope and is closed; the mapping is moved to the caller.
open_input_return ==
    /\ pc = "open_input_return"
    /\ file' = NoneVal
    /\ input' = "Mmap"
    /\ pc' = "hash_one"
    /\ UNCHANGED <<env, stdin_pos, idx, did_error, mmap, state, chunk,
                   short_reads, result, stdout, stderr, exit_code, attempted,
                   history, touched>>

(***************************************************************************)
(* do_path line 101 and hash_one (lines 63-79).                            *)
(***************************************************************************)
\* Mutant of HashLength: the length in bits is passed on as it is.
HashLength_Bits(length_bits) == length_bits

HashLength(length_bits) == length_bits \div 8

hash_one_to_state ==
    /\ pc = "hash_one"
    /\ state' = StateNew(HashLength(opt.length_bits))
    /\ pc' = IF input = "Mmap" THEN "mmap_update" ELSE "read"
    /\ UNCHANGED <<env, stdin_pos, idx, did_error, input, file, mmap, chunk,
                   short_reads, result, stdout, stderr, exit_code, attempted,
                   history, touched>>

\* Input::Mmap(mmap) => state.update(&mmap); the mapping is dropped at the
\* end of the match arm.
hash_one_mmap_update ==
    /\ pc = "mmap_update"
    /\ state' = StateUpdate(state, mmap.bytes)
    /\ mmap' = NoneVal
    /\ pc' = "finalize"
    /\ UNCHANGED <<env, stdin_pos, idx, did_error, input, file, chunk,
                   short_reads, result, stdout, stderr, exit_code, attempted,
                   history, touched>>

\* Mutant of hash_one_finalize: the State is not a local of hash_one and
\* outlives the call.
hash_one_finalize_KeepsState ==
    /\ pc = "finalize"
    /\ result' = Ok(StateFinalize(state))
    /\ history' = [history EXCEPT ![Len(history)].finalized = @ + 1,
                                  ![Len(history)].hash = StateFinalize(state)]
    /\ input' = NoInput
    /\ pc' = "main_ok"
    /\ UNCHANGED <<env, stdin_pos, idx, did_error, file, mmap, state, chunk,
                   short_reads, stdout, stderr, exit_code, attempted, touched>>

\* Ok(state.finalize()); state goes out of scope when hash_one returns.
hash_one_finalize ==
    /\ pc = "finalize"
    /\ result' = Ok(StateFinalize(state))
    /\ history' = [history EXCEPT ![Len(history)].finalized = @ + 1,
                                  ![Len(history)].hash = StateFinalize(state)]
    /\ state' = NoneVal
    /\ input' = NoInput
    /\ pc' = "main_ok"
    /\ UNCHANGED <<env, stdin_pos, idx, did_error, file, mmap, chunk,
                   short_reads, stdout, stderr, exit_code, attempted, touched>>

(***************************************************************************)
(* read_write_all (lines 81-97), on the locked stdin or on the file.       *)
(***************************************************************************)
ReaderContent == IF input = "Stdin" THEN stdin_content ELSE FileContent(file.path)
ReaderPos == IF input = "Stdin" THEN stdin_pos ELSE file.pos

\* The sizes reader.read(&mut buf) may return when avail bytes could be read.
ReadSizes(avail) ==
    {avail} \cup (IF short_reads < MaxShortReads
                  THEN 1..Min(MaxShortRead, avail) ELSE {})

Advance(n) ==
    IF input = "Stdin"
    THEN /\ stdin_pos' = stdin_pos + n
         /\ UNCHANGED file
    ELSE /\ file' = [file EXCEPT !.pos = @ + n]
         /\ UNCHANGED stdin_pos

\* Mutant of read_write_all_read_err: the error ends the loop as the end of
\* the stream does, and hash_one goes on to finalize.
read_write_all_read_err_Swallowed ==
    /\ pc = "read"
    /\ touched' = touched \cup {"read"}
    /\ file' = NoneVal
    /\ chunk' = <<>>
    /\ history' = [history EXCEPT ![Len(history)].read_failed = TRUE,
                                  ![Len(history)].partial = (state.absorbed /= <<>>)]
    /\ pc' = "finalize"
    /\ UNCHANGED <<env, stdin_pos, idx, did_error, input, mmap, state,
                   short_reads, result, stdout, stderr, exit_code, attempted>>

\* let n = reader.read(&mut buf)?  fails: the error leaves read_write_all and
\* hash_one, dropping state and the file.
read_write_all_read_err ==
    /\ pc = "read"
    /\ touched' = touched \cup {"read"}
    /\ result' = Err(EIO)
    /\ state' = NoneVal
    /\ file' = NoneVal
    /\ input' = NoInput
    /\ chunk' = <<>>
    /\ history' = [history EXCEPT ![Len(history)].read_failed = TRUE,
                                  ![Len(history)].partial = (state.absorbed /= <<>>)]
    /\ pc' = "main_err"
    /\ UNCHANGED <<env, stdin_pos, idx, did_error, mmap, short_reads, stdout,
                   stderr, exit_code, attempted>>

\* Mutant of read_write_all_read_eof: the test of n == 0 is missing, the
\* empty slice is written and the loop goes on.
read_write_all_read_eof_NoReturn ==
    /\ pc = "read"
    /\ ReaderPos = Len(ReaderContent)
    /\ touched' = touched \cup {"read"}
    /\ chunk' = <<>>
    /\ pc' = "write"
    /\ UNCHANGED <<env, stdin_pos, idx, did_error, input, file, mmap, state,
                   short_reads, result, stdout, stderr, exit_code, attempted,
                   history>>

\* n == 0: return Ok(()); the match arm of hash_one ends and drops the file.
read_write_all_read_eof ==
    /\ pc = "read"
    /\ ReaderPos = Len(ReaderContent)
    /\ touched' = touched \cup {"read"}
    /\ file' = NoneVal
    /\ chunk' = <<>>
    /\ pc' = "finalize"
    /\ UNCHANGED <<env, stdin_pos, idx, did_error, input, mmap, state,
                   short_reads, result, stdout, stderr, exit_code, attempted,
                   history>>

\* n > 0: buf[..n] holds the next n bytes of the reader, n <= buf.len()
read_write_all_read ==
    /\ pc = "read"
    /\ ReaderPos < Len(ReaderContent)
    /\ touched' = touched \cup {"read"}
    /\ \E n \in ReadSizes(Min(BufLen, Len(ReaderContent) - ReaderPos)) :
          /\ chunk' = SubSeq(ReaderContent, ReaderPos + 1, ReaderPos + n)
          /\ Advance(n)
          /\ short_reads' =
                IF n < Min(BufLen, Len(ReaderContent) - ReaderPos)
                THEN short_reads + 1 ELSE short_reads
    /\ pc' = "write"
    /\ UNCHANGED <<env, idx, did_error, input, mmap, state, result, stdout,
                   stderr, exit_code, attempted, history>>

\* Mutant of read_write_all_write: the slice written is buf[..n - 1].
read_write_all_write_ShortSlice ==
    /\ pc = "write"
    /\ state' = StateUpdate(state, SubSeq(chunk, 1, Len(chunk) - 1))
    /\ pc' = "read"
    /\ UNCHANGED <<env, stdin_pos, idx, did_error, input, file, mmap, chunk,
                   short_reads, result, stdout, stderr, exit_code, attempted,
                   history, touched>>

\* writer.write_all(&buf[..n])?  (State's write never fails)
read_write_all_write ==
    /\ pc = "write"
    /\ state' = StateUpdate(state, chunk)
    /\ pc' = "read"
    /\ UNCHANGED <<env, stdin_pos, idx, did_error, input, file, mmap, chunk,
                   short_reads, result, stdout, stderr, exit_code, attempted,
                   history, touched>>

(***************************************************************************)
(* main: the match on do_path's result (lines 116-122) and the exit.       *)
(***************************************************************************)
\* Mutant of main_print_ok: did_error holds the outcome of the last path.
main_print_ok_ResetsFlag ==
    /\ pc = "main_ok"
    /\ did_error' = FALSE
    /\ stdout' = Append(stdout, SuccessLine(result.hash, path))
    /\ result' = NoneVal
    /\ idx' = idx + 1
    /\ pc' = "for_path"
    /\ UNCHANGED <<env, stdin_pos, input, file, mmap, state, chunk,
                   short_reads, stderr, exit_code, attempted, history,
                   touched>>

main_print_ok ==
    /\ pc = "main_ok"
    /\ stdout' = Append(stdout, SuccessLine(result.hash, path))
    /\ result' = NoneVal
    /\ idx' = idx + 1
    /\ pc' = "for_path"
    /\ UNCHANGED <<env, stdin_pos, did_error, input, file, mmap, state, chunk,
                   short_reads, stderr, exit_code, attempted, history,
                   touched>>

\* Mutant of main_print_err: the diagnostic is printed with println!.
main_print_err_ToStdout ==
    /\ pc = "main_err"
    /\ did_error' = TRUE
    /\ stdout' = Append(stdout, FailureLine(path, result.e))
    /\ result' = NoneVal
    /\ idx' = idx + 1
    /\ pc' = "for_path"
    /\ UNCHANGED <<env, stdin_pos, input, file, mmap, state, chunk,
                   short_reads, stderr, exit_code, attempted, history,
                   touched>>

\* Mutant of main_print_err: the first failure leaves the loop.
main_print_err_Abort ==
    /\ pc = "main_err"
    /\ did_error' = TRUE
    /\ stderr' = Append(stderr, FailureLine(path, result.e))
    /\ result' = NoneVal
    /\ idx' = idx + 1
    /\ pc' = "main_end"
    /\ UNCHANGED <<env, stdin_pos, input, file, mmap, state, chunk,
                   short_reads, stdout, exit_code, attempted, history,
                   touched>>

main_print_err ==
    /\ pc = "main_err"
    /\ did_error' = TRUE
    /\ stderr' = Append(stderr, FailureLine(path, result.e))
    /\ result' = NoneVal
    /\ idx' = idx + 1
    /\ pc' = "for_path"
    /\ UNCHANGED <<env, stdin_pos, input, file, mmap, state, chunk,
                   short_reads, stdout, exit_code, attempted, history,
                   touched>>

\* Mutant of main_exit: the exit(1) after the loop is missing.
main_exit_AlwaysSuccess ==
    /\ pc = "main_end"
    /\ exit_code' = ExitSuccess
    /\ pc' = "exited"
    /\ UNCHANGED <<env, stdin_pos, idx, did_error, input, file, mmap, state,
                   chunk, short_reads, result, stdout, stderr, attempted,
                   history, touched>>

main_exit ==
    /\ pc = "main_end"
    /\ exit_code' = IF did_error THEN ExitFailure ELSE ExitSuccess
    /\ pc' = "exited"
    /\ UNCHANGED <<env, stdin_pos, idx, did_error, input, file, mmap, state,
                   chunk, short_reads, result, stdout, stderr, attempted,
                   history, touched>>

Next ==
    \/ main_invalid_length
    \/ main_valid_length
    \/ main_for_path
    \/ main_for_end
    \/ open_input_stdin
    \/ open_input_dup_stdin
    \/ open_input_file_open
    \/ open_input_map
    \/ open_input_return
    \/ hash_one_to_state
    \/ hash_one_mmap_update
    \/ hash_one_finalize
    \/ read_write_all_read_err
    \/ read_write_all_read_eof
    \/ read_write_all_read
    \/ read_write_all_write
    \/ main_print_ok
    \/ main_print_err
    \/ main_exit

Spec == Init /\ [][Next]_vars

TypeOK ==
    /\ pc \in {"main", "for_path", "open_input", "map", "open_input_return",
               "hash_one", "mmap_update", "read", "write", "finalize",
               "main_ok", "main_err", "main_end", "exited"}
    /\ did_error \in BOOLEAN
    /\ idx \in 1..(Len(opt.input) + 1)

(***************************************************************************)
(* Vocabulary of the properties.                                           *)
(***************************************************************************)
\* The digest lengths the specification allows: 8, 16, ..., 512 bits.
ValidLengths == {8 * k : k \in 1..64}

\* The loop is between two paths, or past the last one.
BetweenInputs == pc \in {"for_path", "main_end", "exited"}

\* Path i has been dealt with: its line has been printed.
Settled(i) == i < idx \/ (i = idx /\ BetweenInputs /\ i <= Len(history))

Failed(i) == history[i].acq_failed \/ history[i].read_failed
Succeeded(i) == ~Failed(i) /\ history[i].finalized > 0

SettledIndexes == {i \in 1..Len(history) : Settled(i)}

RECURSIVE Ascending(_)
\* The members of a set of indexes, in increasing order.
Ascending(S) ==
    IF S = {} THEN <<>>
    ELSE LET m == CHOOSE x \in S : \A y \in S : x <= y
         IN <<m>> \o Ascending(S \ {m})

SuccessIndexes == Ascending({i \in SettledIndexes : ~Failed(i)})
FailureIndexes == Ascending({i \in SettledIndexes : Failed(i)})

Iota(n) == [j \in 1..n |-> j]

(***************************************************************************)
(* C1. With a valid length, do_path is called with each path of opt.input  *)
(* exactly once and in the declared order, whatever the earlier paths      *)
(* ended in; the loop is left only after the last path, and the process    *)
(* exits only then.                                                        *)
(***************************************************************************)
C1_EachOnceInOrder ==
    /\ attempted = Iota(Len(attempted))
    /\ Len(attempted) <= Len(opt.input)
    /\ pc = "for_path" => Len(attempted) = idx - 1
    /\ pc \in {"open_input", "map", "open_input_return", "hash_one",
               "mmap_update", "read", "write", "finalize", "main_ok",
               "main_err"} => Len(attempted) = idx
    /\ (pc \in {"main_end", "exited"} /\ ~InvalidLength(opt.length_bits))
          => attempted = Iota(Len(opt.input))

\* A run of three paths that ends after the first failed and a later one
\* succeeded.
C1_Witness ==
    /\ pc = "exited"
    /\ Len(opt.input) = 3
    /\ attempted = <<1, 2, 3>>
    /\ Failed(1)
    /\ ~Failed(3)

(***************************************************************************)
(* C2. The exit status is 0 exactly when the length is valid and every     *)
(* path produced a success line; it is 1 when the length is invalid or a   *)
(* path failed; no status exists before the loop is over.                  *)
(***************************************************************************)
C2_ExitStatus ==
    /\ pc /= "exited" => exit_code = NoneVal
    /\ pc = "exited" =>
          /\ exit_code \in {0, 1}
          /\ exit_code = 0 <=>
                /\ opt.length_bits \in ValidLengths
                /\ \A i \in 1..Len(opt.input) :
                      i <= Len(history) /\ Succeeded(i)
          /\ exit_code = 1 <=>
                \/ opt.length_bits \notin ValidLengths
                \/ \E i \in 1..Len(history) : Failed(i)
          /\ (\E i \in 1..Len(history) : Failed(i))
                => Len(attempted) = Len(opt.input)

\* Exit with status 1 although the last path succeeded: an earlier one failed.
C2_Witness ==
    /\ pc = "exited"
    /\ exit_code = 1
    /\ Len(opt.input) >= 2
    /\ Failed(1)
    /\ Succeeded(Len(opt.input))

(***************************************************************************)
(* C3. A length of 0, above 512 or not a multiple of 8 ends the run in the *)
(* length check: no path is attempted, no descriptor opened, duplicated,   *)
(* mapped or read, nothing is on standard output, and the status is 1.     *)
(* Every length in 8, 16, ..., 512 passes the check: such a run exits only *)
(* after the loop over the paths.                                          *)
(***************************************************************************)
C3_LengthCheck ==
    /\ opt.length_bits \notin ValidLengths =>
          /\ pc \in {"main", "exited"}
          /\ attempted = <<>>
          /\ touched = {}
          /\ stdin_pos = 0
          /\ file = NoneVal /\ mmap = NoneVal /\ state = NoneVal
          /\ stdout = <<>>
          /\ pc = "exited" =>
                exit_code = 1 /\ stderr = <<InvalidLengthLine>>
    /\ opt.length_bits \in ValidLengths =>
          /\ InvalidLengthLine \notin {stderr[k] : k \in 1..Len(stderr)}
          /\ pc = "exited" => attempted = Iota(Len(opt.input))

\* 520 is a multiple of 8 above 512: rejected.
C3_Witness ==
    /\ pc = "exited"
    /\ opt.length_bits = 520
    /\ exit_code = 1
    /\ Len(opt.input) = 1

(***************************************************************************)
(* C4. With a valid length every path that has been dealt with has exactly *)
(* one line: "<hex>  <path>" on standard output if it did not fail, or     *)
(* "b2sum: <path>: <error>" on standard error if it failed; the lines of   *)
(* each stream are in the order of the paths.  With three paths of which   *)
(* only the second, a missing file, fails: two success lines (first and    *)
(* third path), one failure line, status 1.                                *)
(***************************************************************************)
IoErrors == {ENOENT, EBADF, ENODEV, EINVAL, EIO}

C4_OneLinePerPath ==
    opt.length_bits \in ValidLengths =>
       /\ \A i \in SettledIndexes : Failed(i) <=> ~Succeeded(i)
       /\ Len(stdout) = Len(SuccessIndexes)
       /\ \A k \in 1..Len(SuccessIndexes) :
             stdout[k] = ToHex(history[SuccessIndexes[k]].hash) \o "  "
                            \o opt.input[SuccessIndexes[k]]
       /\ Len(stderr) = Len(FailureIndexes)
       /\ \A k \in 1..Len(FailureIndexes) :
             \E e \in IoErrors :
                stderr[k] = "b2sum: " \o opt.input[FailureIndexes[k]] \o ": " \o e
       /\ ( /\ pc = "exited"
            /\ Len(opt.input) = 3
            /\ opt.input[2] = "nofile"
            /\ ~Failed(1) /\ ~Failed(3) )
          => /\ stdout = << ToHex(history[1].hash) \o "  " \o opt.input[1],
                            ToHex(history[3].hash) \o "  " \o opt.input[3] >>
             /\ stderr = << "b2sum: nofile: " \o ENOENT >>
             /\ exit_code = 1

C4_Witness ==
    /\ pc = "exited"
    /\ opt.input = <<"a", "nofile", "empty">>
    /\ Len(stdout) = 2
    /\ Len(stderr) = 1
    /\ exit_code = 1

(***************************************************************************)
(* C5. When hash_one is about to finalize, the State of a buffered input   *)
(* (a File, or Stdin not read before in the run) equals the State the      *)
(* mapped path builds with one update over the whole content, however the  *)
(* reads split the content; the Hash returned is the digest of the whole   *)
(* content at the requested length in both modes.                          *)
(***************************************************************************)
StdinUnread == \A j \in 1..(idx - 1) : opt.input[j] /= StdinSentinel

WholeContentState ==
    StateUpdate(StateNew(opt.length_bits \div 8), Content(path))

C5_BufferedEqualsMapped ==
    /\ (pc = "finalize" /\ (path /= StdinSentinel \/ opt.mmap \/ StdinUnread))
          => state = WholeContentState
    /\ (pc = "main_ok" /\ (path /= StdinSentinel \/ opt.mmap \/ StdinUnread))
          => result = Ok(StateFinalize(WholeContentState))

\* A file of three bytes absorbed in three reads of one byte each.
C5_Witness ==
    /\ pc = "finalize"
    /\ ~opt.mmap
    /\ path = "a"
    /\ short_reads = 2
    /\ state.absorbed = <<1, 2, 3>>

(***************************************************************************)
(* C6. A path whose read failed, after any number of successful reads, is  *)
(* never finalized and has no Hash; its State is gone when main sees the   *)
(* error; it gets no line on standard output, and its line on standard     *)
(* error names it.                                                         *)
(***************************************************************************)
FailuresUpTo(i) == Cardinality({j \in 1..i : Failed(j)})

C6_ReadFailureAborts ==
    \A i \in 1..Len(history) :
       history[i].read_failed =>
          /\ history[i].finalized = 0
          /\ history[i].hash = NoneVal
          /\ (i = idx /\ pc = "main_err") => (state = NoneVal /\ result = Err(EIO))
          /\ (i = idx /\ ~BetweenInputs) => pc = "main_err"
          /\ Settled(i) =>
                /\ stderr[FailuresUpTo(i)] = FailureLine(opt.input[i], EIO)
                /\ Len(stdout) = Cardinality({j \in SettledIndexes : ~Failed(j)})

\* A read failed after bytes had been absorbed, and the run went on.
C6_Witness ==
    /\ pc = "exited"
    /\ Len(history) = 2
    /\ history[1].read_failed
    /\ history[1].partial
    /\ Succeeded(2)

(***************************************************************************)
(* C7. A path of zero bytes gets a success line with the digest of the     *)
(* empty input at the requested length, not an error, in both modes:       *)
(* buffered, when its first read returns 0, and mapped, where open_input   *)
(* succeeds on it.                                                         *)
(***************************************************************************)
C7_EmptyInputHashes ==
    \A i \in SettledIndexes :
       (opt.input[i] = "empty" /\ ~history[i].read_failed) =>
          /\ ~history[i].acq_failed
          /\ history[i].finalized = 1
          /\ history[i].hash = DigestBytes(<<>>, opt.length_bits \div 8)

(***************************************************************************)
(* C8. With no positional argument opt.input is exactly <<"-">>; a run     *)
(* that passes the length check then calls do_path once, with "-",         *)
(* finalizes at most one State, and ends with exactly one line, the        *)
(* success line of "-" or its failure line.                                *)
(***************************************************************************)
C8_DefaultStdin ==
    args = <<>> =>
       /\ opt.input = <<StdinSentinel>>
       /\ Len(attempted) <= 1
       /\ \A i \in 1..Len(history) : history[i].finalized <= 1
       /\ (pc = "exited" /\ opt.length_bits \in ValidLengths) =>
             /\ attempted = <<1>>
             /\ Len(stdout) + Len(stderr) = 1
             /\ stdout /= <<>> =>
                   /\ history[1].finalized = 1
                   /\ stdout[1] = ToHex(history[1].hash) \o "  -"
             /\ stderr /= <<>> => history[1].finalized = 0

C8_Witness ==
    /\ pc = "exited"
    /\ args = <<>>
    /\ ~opt.mmap
    /\ stdin_content = <<7, 8>>
    /\ Len(stdout) = 1
    /\ exit_code = 0

(***************************************************************************)
(* C9. Every State is made with hash_length = length_bits / 8 exactly      *)
(* (8 * hash_length = length_bits), between 1 and 64; the Hash returned    *)
(* has hash_length bytes and every success line has length_bits / 4        *)
(* hexadecimal characters before the two spaces and the path.              *)
(***************************************************************************)
C9_DigestLength ==
    /\ state /= NoneVal =>
          /\ 8 * state.hash_length = opt.length_bits
          /\ state.hash_length \in 1..64
    /\ pc = "main_ok" =>
          /\ 8 * Len(result.hash) = opt.length_bits
          /\ Len(ToHex(result.hash)) = 2 * (opt.length_bits \div 8)
          /\ Len(ToHex(result.hash)) = opt.length_bits \div 4
    /\ Len(stdout) <= Len(SuccessIndexes)
    /\ \A k \in 1..Len(stdout) :
          /\ 4 * (Len(stdout[k]) - 2 - Len(opt.input[SuccessIndexes[k]]))
                = opt.length_bits
          /\ Len(stdout[k]) - 2 - Len(opt.input[SuccessIndexes[k]])
                = 2 * (opt.length_bits \div 8)

\* A digest of 24 bits: 3 bytes, 6 hexadecimal characters.
C9_Witness ==
    /\ pc = "exited"
    /\ opt.length_bits = 24
    /\ opt.input = <<"a">>
    /\ Len(stdout) = 1
    /\ Len(stdout[1]) = 6 + 2 + 1

(***************************************************************************)
(* C10. Between two paths (from the return of do_path to the next          *)
(* open_input, and before the first and after the last path) no File is    *)
(* open, no mapping is live and no State exists; what is live while a path *)
(* is processed belongs to that path.                                      *)
(***************************************************************************)
C10_ResourcesScoped ==
    /\ pc \in {"main", "for_path", "open_input", "main_ok", "main_err",
               "main_end", "exited"}
          => (file = NoneVal /\ mmap = NoneVal /\ state = NoneVal)
    /\ file /= NoneVal => file.path = path
    /\ mmap /= NoneVal => (opt.mmap /\ mmap.bytes = Content(path))
    /\ state /= NoneVal =>
          pc \in {"mmap_update", "read", "write", "finalize"}

\* The second path is about to be opened after the first was opened and
\* its mapping failed.
C10_Witness ==
    /\ pc = "open_input"
    /\ idx = 2
    /\ history[1].opened
    /\ history[1].acq_failed

(***************************************************************************)
(* C11. Whenever a mapping is live, the File (or the duplicated standard   *)
(* input) it was made from is still open.                                  *)
(***************************************************************************)
C11_MappingWithinDescriptor ==
    mmap /= NoneVal => (file /= NoneVal /\ mmap.bytes = Content(file.path))

(***************************************************************************)
(* C11, as amended.  A mapping is made from an open descriptor and is live *)
(* with it only until open_input returns; open_input closes the descriptor *)
(* on its return, and the mapping lives on without it in hash_one until    *)
(* its bytes have been absorbed; no mapping is live after that.            *)
(***************************************************************************)
C11_MappingOutlivesDescriptor ==
    /\ pc = "open_input_return" =>
          /\ mmap /= NoneVal
          /\ file /= NoneVal
          /\ file.path = path
          /\ mmap.bytes = Content(file.path)
    /\ pc \in {"hash_one", "mmap_update"} /\ opt.mmap =>
          /\ mmap /= NoneVal
          /\ mmap.bytes = Content(path)
          /\ file = NoneVal
    /\ mmap /= NoneVal =>
          pc \in {"open_input_return", "hash_one", "mmap_update"}

\* The mapping of a file is about to be absorbed and the file is closed.
C11_Witness ==
    /\ pc = "mmap_update"
    /\ path = "a"
    /\ mmap /= NoneVal
    /\ file = NoneVal
    /\ state /= NoneVal


(***************************************************************************)
(* C12. In read_write_all every read that returns n > 0 bytes is followed  *)
(* by exactly one write of those n bytes, 1 <= n <= 32768, so that the     *)
(* State has absorbed, in order, exactly the bytes read so far; no empty   *)
(* slice is written; a read that returns 0 or fails ends the loop, and the *)
(* reader is not read again for this path.  Every read that does not end   *)
(* the loop moves the reader forward, and the reader has finitely many     *)
(* bytes, so the loop ends.                                                *)
(***************************************************************************)
BytesRead(n) == SubSeq(ReaderContent, ReaderPos - n + 1, ReaderPos)

C12_LoopState ==
    /\ pc \in {"read", "write"} =>
          /\ input \in {"Stdin", "File"}
          /\ ReaderPos <= Len(ReaderContent)
    /\ pc = "read" => state.absorbed = BytesRead(Len(state.absorbed))
    /\ pc = "write" =>
          /\ chunk /= <<>>
          /\ Len(chunk) <= BufLen
          /\ chunk = BytesRead(Len(chunk))
          /\ state.absorbed \o chunk
                = BytesRead(Len(state.absorbed) + Len(chunk))

C12_LoopStep ==
    /\ (pc = "read" /\ pc' = "write") =>
          /\ ReaderPos' = ReaderPos + Len(chunk')
          /\ ReaderPos' > ReaderPos
          /\ state' = state
    /\ (pc = "read" /\ pc' /= "write") =>
          /\ pc' \in {"finalize", "main_err"}
          /\ stdin_pos' = stdin_pos
    /\ pc = "write" =>
          /\ pc' = "read"
          /\ state' = [state EXCEPT !.absorbed = @ \o chunk]
          /\ UNCHANGED <<stdin_pos, file>>
    /\ pc /= "read" => stdin_pos' = stdin_pos
    /\ (pc \notin {"read", "open_input", "map", "open_input_return"})
          => file' = file

C12_ReadLoop == []C12_LoopState /\ [][C12_LoopStep]_vars

\* A full buffer has been read from the big file and is about to be written.
C12_Witness ==
    /\ pc = "write"
    /\ path = "big"
    /\ Len(chunk) = BufLen
    /\ state.absorbed = <<>>


(***************************************************************************)
(* C13. hash_one makes a new State for each path whose open_input          *)
(* succeeded: it starts with nothing absorbed and absorbs bytes of that    *)
(* path only.  A path that succeeds has its State finalized exactly once,  *)
(* on all it absorbed, and the State is gone after that; a path that fails *)
(* has no State finalized.                                                 *)
(***************************************************************************)
C13_StateOfPath ==
    /\ \A i \in 1..Len(history) :
          /\ history[i].finalized <= 1
          /\ Failed(i) => (history[i].finalized = 0 /\ history[i].hash = NoneVal)
    /\ \A i \in SettledIndexes : ~Failed(i) => history[i].finalized = 1
    /\ state /= NoneVal =>
          /\ Len(history) = idx
          /\ history[idx].finalized = 0
          /\ ~Failed(idx)
    /\ pc = "mmap_update" => state.absorbed = <<>>
    /\ (pc \in {"read", "write"} /\ input = "File") =>
          state.absorbed = SubSeq(FileContent(path), 1, Len(state.absorbed))

C13_StateStep ==
    /\ pc = "hash_one" =>
          state' = [hash_length |-> opt.length_bits \div 8, absorbed |-> <<>>]
    /\ pc = "finalize" =>
          /\ state' = NoneVal
          /\ history'[idx].finalized = history[idx].finalized + 1
          /\ history'[idx].hash = DigestBytes(state.absorbed, state.hash_length)
    /\ (state' /= state /\ state' /= NoneVal) =>
          pc \in {"hash_one", "write", "mmap_update"}
    /\ (Len(history') = Len(history) /\ Len(history) >= 1
          /\ history[Len(history)].finalized > 0) => state' = NoneVal

C13_FreshStateFinalizedOnce == []C13_StateOfPath /\ [][C13_StateStep]_vars

\* The second path starts on an empty State after the first absorbed three
\* bytes and was finalized.
C13_Witness ==
    /\ pc = "read"
    /\ idx = 2
    /\ opt.input[1] = "a"
    /\ history[1].finalized = 1
    /\ path = "a"
    /\ state.absorbed = <<>>


(***************************************************************************)
(* C14. The Input of a path depends on (path is "-", mmap flag) only:      *)
(* "-" without mmap is Stdin, chosen with no system call and no possible   *)
(* failure; "-" with mmap is Mmap after a dup of standard input and a map; *)
(* another path without mmap is File after an open; another path with mmap *)
(* is Mmap after an open and a map; a failure of dup, open or map is an    *)
(* error of open_input.  The Input is set by open_input only, and hash_one *)
(* consumes the variant that was set.                                      *)
(***************************************************************************)
Variant(is_sentinel, map) ==
    IF map THEN "Mmap" ELSE IF is_sentinel THEN "Stdin" ELSE "File"

C14_VariantState ==
    /\ input /= NoInput =>
          /\ input = Variant(path = StdinSentinel, opt.mmap)
          /\ Len(history) = idx
          /\ ~history[idx].acq_failed
    /\ pc = "hash_one" => input /= NoInput
    /\ pc \in {"read", "write"} => input \in {"Stdin", "File"}
    /\ pc = "mmap_update" => input = "Mmap"
    /\ (pc \in {"hash_one", "read", "write"} /\ input = "File") =>
          /\ file /= NoneVal
          /\ file.path = path
          /\ path \in Files
          /\ "open" \in touched
    /\ (pc \in {"hash_one", "read", "write"} /\ input = "Stdin") =>
          (file = NoneVal /\ mmap = NoneVal /\ ~history[idx].opened)
    /\ (pc \in {"hash_one", "mmap_update"} /\ input = "Mmap") =>
          /\ mmap /= NoneVal
          /\ history[idx].opened
          /\ "mmap" \in touched
          /\ IF path = StdinSentinel THEN "dup" \in touched
             ELSE "open" \in touched /\ path \in Files
    /\ \A i \in 1..Len(history) :
          (opt.input[i] = StdinSentinel /\ ~opt.mmap) =>
             (~history[i].acq_failed /\ ~history[i].opened)
    /\ ~opt.mmap => touched \cap {"dup", "mmap"} = {}

C14_VariantStep ==
    /\ (input /= NoInput /\ input' /= NoInput) => input' = input
    /\ (input' /= input /\ input' /= NoInput) =>
          pc \in {"open_input", "open_input_return"}
    /\ (pc = "open_input" /\ path = StdinSentinel /\ ~opt.mmap) =>
          /\ input' = "Stdin"
          /\ pc' = "hash_one"
          /\ UNCHANGED <<touched, stdin_pos, file, mmap>>
    /\ (pc \in {"open_input", "map"} /\ pc' = "main_err") =>
          /\ history'[idx].acq_failed
          /\ input' = NoInput
          /\ file' = NoneVal /\ mmap' = NoneVal

C14_InputVariant == []C14_VariantState /\ [][C14_VariantStep]_vars

\* Standard input, duplicated and mapped, is about to be absorbed.
C14_Witness ==
    /\ pc = "mmap_update"
    /\ path = StdinSentinel
    /\ input = "Mmap"
    /\ {"dup", "mmap"} \subseteq touched


(***************************************************************************)
(* C15. did_error starts false, is never reset once true, is set only when *)
(* a failure is printed, and after each path is true exactly when one of   *)
(* the paths dealt with so far failed; a success line is printed the same  *)
(* way whatever did_error is, and leaves it as it was.                     *)
(***************************************************************************)
C15_FlagState ==
    /\ pc = "main" => ~did_error
    /\ did_error <=> (\E i \in SettledIndexes : Failed(i))

C15_FlagStep ==
    /\ did_error => did_error'
    /\ (did_error' /\ ~did_error) => pc = "main_err"
    /\ pc = "main_ok" =>
          /\ did_error' = did_error
          /\ stdout' = Append(stdout, ToHex(result.hash) \o "  " \o path)
          /\ stderr' = stderr

C15_FailureFlag == []C15_FlagState /\ [][C15_FlagStep]_vars

\* The second path has succeeded after the first failed; the flag is set.
C15_Witness ==
    /\ pc = "for_path"
    /\ idx = 3
    /\ Failed(1)
    /\ Succeeded(2)
    /\ did_error
    /\ Len(stdout) = 1

(***************************************************************************)
(* C16. Standard input is read through one position shared by all the "-"  *)
(* of a run and never moved back.  Without mmap, the first "-" that is     *)
(* hashed absorbs standard input to its end; every later "-" that is       *)
(* hashed absorbs nothing and prints the digest of the empty input, so     *)
(* two "-" of one run print different digests when standard input is not   *)
(* empty.                                                                  *)
(***************************************************************************)
HashedStdin(i) == opt.input[i] = StdinSentinel /\ history[i].finalized = 1

C16_StdinState ==
    /\ stdin_pos <= Len(stdin_content)
    /\ opt.mmap => stdin_pos = 0
    /\ ~opt.mmap =>
          \A i \in 1..Len(history) :
             HashedStdin(i) =>
                /\ (i < idx \/ pc \notin {"read", "write", "finalize"})
                      => stdin_pos = Len(stdin_content)
                /\ (\A j \in 1..(i - 1) : opt.input[j] /= StdinSentinel)
                      => history[i].hash
                            = DigestBytes(stdin_content, opt.length_bits \div 8)
                /\ (\E j \in 1..(i - 1) : HashedStdin(j))
                      => history[i].hash
                            = DigestBytes(<<>>, opt.length_bits \div 8)

C16_StdinStep == stdin_pos' >= stdin_pos

C16_SharedStdin == []C16_StdinState /\ [][C16_StdinStep]_vars

\* Two "-" of one run, both hashed, with different success lines.
C16_Witness ==
    /\ pc = "exited"
    /\ ~opt.mmap
    /\ opt.input = <<StdinSentinel, StdinSentinel>>
    /\ stdin_content = <<7, 8>>
    /\ Len(stdout) = 2
    /\ stdout[1] /= stdout[2]
    /\ stdout[2] = ToHex(DigestBytes(<<>>, opt.length_bits \div 8)) \o "  -"
    /\ exit_code = 0

====
